---- MODULE Spec2Model ----
(***************************************************************************)
(* Model of atexit_tempfile: the path validator check_path, the deleter    *)
(* _cleanup, the two handle classes CleanupWithDel / CleanupWithFinalize,  *)
(* the class-level registry Cleanup._delay_till_exit, and the interpreter  *)
(* shutdown sequence (_at_exit, weakref.finalize's exit function, object   *)
(* teardown).                                                              *)
(***************************************************************************)
EXTENDS Integers, Sequences, FiniteSets, TLC

\* Number of handle objects a run may allocate (bound of the model).
NumHandles == 2

Handles == 1..NumHandles

(***************************************************************************)
(* Python values handed to check_path / _cleanup.  A path is its sequence  *)
(* of components; an absolute path starts with the anchor "/".  A str      *)
(* keeps its components as written, a pathlib.Path is normalised ("."      *)
(* components are dropped, ".." components are kept).                      *)
(***************************************************************************)
NoParts == << >>

StrVal(parts) == [type |-> "str", parts |-> parts]

NoneVal == [type |-> "NoneType", parts |-> NoParts]

IntVal == [type |-> "int", parts |-> NoParts]

\* pathlib.PurePath parsing: "." components vanish, ".." components stay.
RECURSIVE Normalize(_)
Normalize(parts) ==
    IF parts = << >> THEN << >>
    ELSE IF Head(parts) = "." THEN Normalize(Tail(parts))
    ELSE << Head(parts) >> \o Normalize(Tail(parts))

\* Path(x) for a str or Path x.
Path(v) == [type |-> "Path", parts |-> Normalize(v.parts)]

\* TEMP_DIR = gettempdir()
TEMP_DIR == << "/", "tmp" >>

\* The process's working directory (relative paths resolve against it).
Cwd == << "/", "home" >>

\* A file name with an embedded NUL character.
NulName == "a_NUL_b"

\* The temp file mkstemp creates for the h-th handle.
TempFile(h) == << "/", "tmp", "f" \o ToString(h) >>

\* Component sequences the callers of the model pass in.
CandidateParts ==
    { TempFile(h) : h \in Handles } \cup
    { << >>,
      << "." >>,
      << "/", "tmp", "ro" >>,
      << "/", "tmp", "d" >>,
      << "/", "tmp", "missing" >>,
      << "/", "tmp", NulName >>,
      << "/", "tmp", ".", "f1" >>,
      << "/", "home", "f" >>,
      << "/", "tmp", "..", "home", "f" >>,
      << "/", "tmp", "d", "..", "f1" >>,
      << "/", "home", "..", "tmp", "f1" >>,
      << "f" >> }

CandidateValues ==
    { NoneVal, IntVal }
        \cup { StrVal(p) : p \in CandidateParts }
        \cup { Path(StrVal(p)) : p \in CandidateParts }

(***************************************************************************)
(* The file system.  Directories are fixed; fs (a variable) is the set of  *)
(* locations that currently hold a regular file.  A location is a resolved *)
(* absolute path (no "." or ".." components).                              *)
(***************************************************************************)
Dirs == { << "/" >>, << "/", "tmp" >>, << "/", "home" >>, << "/", "tmp", "d" >> }

\* Regular files present when the process starts.
InitialFiles ==
    { TempFile(h) : h \in Handles } \cup { << "/", "tmp", "ro" >>, << "/", "home", "f" >> }

\* Files whose removal the operating system refuses (PermissionError).
Denied == { << "/", "tmp", "ro" >> }

NoEnt == << >>

Parent(loc) == IF Len(loc) <= 1 THEN loc ELSE SubSeq(loc, 1, Len(loc) - 1)

\* Path resolution as the operating system does it: walk the components
\* from directory cur; ".." steps to the parent; a step through something
\* that is not a directory fails.
RECURSIVE Walk(_, _, _)
Walk(parts, i, cur) ==
    IF i > Len(parts) THEN cur
    ELSE IF cur \notin Dirs THEN NoEnt
    ELSE IF parts[i] = ".." THEN Walk(parts, i + 1, Parent(cur))
    ELSE IF parts[i] = "." THEN Walk(parts, i + 1, cur)
    ELSE Walk(parts, i + 1, Append(cur, parts[i]))

Resolve(parts) ==
    IF parts # << >> /\ parts[1] = "/" THEN Walk(parts, 2, << "/" >>)
    ELSE Walk(parts, 1, Cwd)

HasNul(parts) == \E i \in 1..Len(parts) : parts[i] = NulName

\* Path.exists(): pathlib swallows the ValueError of an embedded NUL.
exists(parts, files) ==
    /\ ~HasNul(parts)
    /\ Resolve(parts) \in (Dirs \cup files)

\* Path.is_file()
is_file(parts, files) == ~HasNul(parts) /\ Resolve(parts) \in files

\* PurePath.is_relative_to(other): a comparison of components, no file
\* system access and no resolution of "..".
is_relative_to(parts, other) ==
    /\ Len(parts) >= Len(other)
    /\ SubSeq(parts, 1, Len(other)) = other

\* Whether the file a path names lies below the temp directory.
UnderTempDir(parts) ==
    LET loc == Resolve(parts)
    IN  loc # NoEnt /\ Len(loc) > Len(TEMP_DIR) /\ is_relative_to(loc, TEMP_DIR)

\* os.remove(path): the exception it raises ("None" when it succeeds) and
\* the files left afterwards.
os_remove(parts, files) ==
    LET loc == Resolve(parts)
    IN  IF HasNul(parts) THEN [exc |-> "ValueError", files |-> files]
        ELSE IF loc \in Dirs THEN [exc |-> "IsADirectoryError", files |-> files]
        ELSE IF loc \notin files THEN [exc |-> "FileNotFoundError", files |-> files]
        ELSE IF loc \in Denied THEN [exc |-> "PermissionError", files |-> files]
        ELSE [exc |-> "None", files |-> files \ {loc}]

\* The classes named by _cleanup's except clause, with their subclasses.
CaughtByCleanup ==
    { "TypeError", "IsADirectoryError", "PermissionError", "FileNotFoundError", "OSError" }


(***************************************************************************)
(* check_path: the exception it raises ("None" when it returns), the       *)
(* message that tells the two ValueErrors apart, and the Path it returns.  *)
(***************************************************************************)
Raises(exc, msg) == [exc |-> exc, msg |-> msg, val |-> NoneVal]

\* check_path without the isinstance test.
check_path_NoTypeTest(path, files) ==
    IF \/ path.type = "NoneType"
       \/ path = StrVal(<< >>)
       \/ (path.type = "Path" /\ path.parts = << >>)
    THEN Raises("ValueError", "path cannot be empty")
    ELSE LET p == Path(path)
         IN  IF ~exists(p.parts, files)
             THEN Raises("FileNotFoundError", "Path does not exist")
             ELSE IF ~is_file(p.parts, files)
             THEN Raises("ValueError", "Path is not a file")
             ELSE IF ~is_relative_to(p.parts, TEMP_DIR)
             THEN Raises("ValueError", "Path is not in temp directory")
             ELSE [exc |-> "None", msg |-> "", val |-> p]

check_path(path, files) ==
    IF \/ path.type = "NoneType"
       \/ path = StrVal(<< >>)
       \/ (path.type = "Path" /\ path.parts = << >>)
    THEN Raises("ValueError", "path cannot be empty")
    ELSE IF path.type # "str" /\ path.type # "Path"
    THEN Raises("TypeError", "path must be a string or Path")
    ELSE LET p == Path(path)
         IN  IF ~exists(p.parts, files)
             THEN Raises("FileNotFoundError", "Path does not exist")
             ELSE IF ~is_file(p.parts, files)
             THEN Raises("ValueError", "Path is not a file")
             ELSE IF ~is_relative_to(p.parts, TEMP_DIR)
             THEN Raises("ValueError", "Path is not in temp directory")
             ELSE [exc |-> "None", msg |-> "", val |-> p]

(***************************************************************************)
(* _cleanup: ret is the value it returns ("None" or an exception class),   *)
(* raised the exception that escapes it ("None" when it returns), files    *)
(* the file system afterwards and rm the paths it handed to os.remove.     *)
(***************************************************************************)
Returns(ret, files, rm) == [ret |-> ret, raised |-> "None", files |-> files, rm |-> rm]

_cleanup(path, files) ==
    IF path.type # "Path"
    THEN Returns("TypeError", files, {})
    ELSE IF path.parts = << >>
    THEN Returns("ValueError", files, {})
    ELSE IF ~is_relative_to(path.parts, TEMP_DIR)
    THEN Returns("ValueError", files, {})
    ELSE LET r == os_remove(path.parts, files)
         IN  IF r.exc = "None" \/ r.exc \in CaughtByCleanup
             THEN Returns(r.exc, r.files, {path.parts})
             ELSE [ret |-> "NoReturn", raised |-> r.exc, files |-> r.files,
                   rm |-> {path.parts}]

(***************************************************************************)
(* State.                                                                  *)
(*   obj[h]    the h-th object allocated: its class, its attributes        *)
(*             (_initialized, _path, _cleaned_up, _finalizer), whether     *)
(*             the caller still holds a reference to it, and history       *)
(*             fields: the delay_till_exit argument, whether cleanup()     *)
(*             was ever called on it, the number of _cleanup invocations   *)
(*             made for it and the result of the latest one                *)
(*   registry  Cleanup._delay_till_exit                                    *)
(*   fs        the regular files present                                   *)
(*   phase     "running", then the shutdown stage that comes next:         *)
(*             "atexit", "exitfunc", "teardown", and "done"                *)
(*   last      the latest operation: the handle it was called on (0 when   *)
(*             it has none), what it returned or raised and, for a direct  *)
(*             call of check_path or _cleanup, the argument, the message   *)
(*             of the exception, the Path returned and the paths handed    *)
(*             to os.remove; calls lists the handles whose cleanup() was   *)
(*             invoked in the step, in order, and unraisable holds the     *)
(*             exceptions that left a destructor or weakref callback and   *)
(*             were reported by the interpreter instead of propagating     *)
(*   run       how many times _on_finalize has been entered and, where a   *)
(*             thread is followed statement by statement, the handle whose *)
(*             __init__ is under way with the line it is to execute next,  *)
(*             the drain under way with its snapshot and loop index, and   *)
(*             the handles enrolled while a drain was under way, and for   *)
(*             each thread the handle whose cleanup() it is inside and the *)
(*             statement it is to execute next                             *)
(***************************************************************************)
VARIABLES obj, registry, fs, phase, last, run

vars == << obj, registry, fs, phase, last, run >>

NoObject ==
    [cls |-> "none", init |-> "absent", path |-> NoneVal, cleaned |-> "None",
     fin |-> "None", held |-> FALSE, delay |-> FALSE, called |-> FALSE,
     attempts |-> 0, res |-> "-"]

NoOp ==
    [op |-> "start", h |-> 0, arg |-> NoneVal, ret |-> "-", raised |-> "None",
     msg |-> "", val |-> NoneVal, rm |-> {}, calls |-> << >>, unraisable |-> {}]

\* The threads that call cleanup() on the handles.
NumThreads == 2

Threads == 1..NumThreads

\* A thread that is not inside a cleanup() call.
Idle == [h |-> 0, at |-> "idle"]

\* No _on_finalize has run yet, no __init__ and no drain is under way, and
\* no thread is inside cleanup().
NoRun ==
    [drains |-> 0, ctor |-> 0, line |-> 0, drainer |-> "idle",
     snapshot |-> << >>, i |-> 0, late |-> {},
     pcs |-> [t \in Threads |-> Idle]]

Init ==
    /\ obj = [h \in Handles |-> NoObject]
    /\ registry = << >>
    /\ fs = InitialFiles
    /\ phase = "running"
    /\ last = NoOp
    /\ run = NoRun


(***************************************************************************)
(* The methods, as functions from a state st = [obj, registry, fs, rm,     *)
(* ret, raised] to the state after the call: ret is the value returned,    *)
(* raised the exception that left the call ("None" when it returned) and   *)
(* rm the paths handed to os.remove so far in the step.                    *)
(***************************************************************************)
Now == [obj |-> obj, registry |-> registry, fs |-> fs, rm |-> {},
        ret |-> "-", raised |-> "None", calls |-> << >>, unraisable |-> {}]

\* The element of a one-element set (binds a value that is computed once).
The(S) == CHOOSE x \in S : TRUE

\* The state after _cleanup, called for handle h, gave r.
AfterDeleter(s, h, r) ==
    [s EXCEPT !.obj[h].attempts = @ + 1,
              !.obj[h].res = IF r.raised = "None" THEN r.ret ELSE r.raised,
              !.fs = r.files,
              !.rm = @ \cup r.rm,
              !.ret = r.ret,
              !.raised = r.raised]

\* The call _cleanup(path) made for handle h.
CallDeleter(st, h) ==
    The({ The({ AfterDeleter(s, h, r) : r \in {_cleanup(s.obj[h].path, s.fs)} })
          : s \in {st} })

\* CleanupWithDel.cleanup without the test of _cleaned_up.
CleanupWithDel_cleanup_NoFlag(st, h) ==
    The({ IF s.obj[h].path = NoneVal
          THEN [s EXCEPT !.ret = "NoReturn", !.raised = "AttributeError"]
          ELSE The({ IF r.raised # "None" THEN r
                     ELSE [r EXCEPT !.obj[h].cleaned = "True"]
                     : r \in {CallDeleter(s, h)} })
          : s \in {st} })

\* CleanupWithDel.cleanup that sets _cleaned_up only after a deletion that
\* succeeded.
CleanupWithDel_cleanup_MarksSuccessOnly(st, h) ==
    The({ IF s.obj[h].cleaned # "True"
          THEN IF s.obj[h].path = NoneVal
               THEN [s EXCEPT !.ret = "NoReturn", !.raised = "AttributeError"]
               ELSE The({ IF r.raised # "None" \/ r.ret # "None" THEN r
                          ELSE [r EXCEPT !.obj[h].cleaned = "True"]
                          : r \in {CallDeleter(s, h)} })
          ELSE [s EXCEPT !.ret = "None", !.raised = "None"]
          : s \in {st} })

\* CleanupWithDel.cleanup.  Reading self.path on an object whose __init__
\* never set _path is an AttributeError.
CleanupWithDel_cleanup(st, h) ==
    The({ IF s.obj[h].cleaned # "True"
          THEN IF s.obj[h].path = NoneVal
               THEN [s EXCEPT !.ret = "NoReturn", !.raised = "AttributeError"]
               ELSE The({ IF r.raised # "None" THEN r
                          ELSE [r EXCEPT !.obj[h].cleaned = "True"]
                          : r \in {CallDeleter(s, h)} })
          ELSE [s EXCEPT !.ret = "None", !.raised = "None"]
          : s \in {st} })

\* A finalizer that stays alive after it was called.
finalize_call_StaysAlive(st, h) ==
    The({ IF s.obj[h].fin = "alive"
          THEN CallDeleter(s, h)
          ELSE [s EXCEPT !.ret = "None", !.raised = "None"]
          : s \in {st} })

\* weakref.finalize.__call__: a live finalizer is marked dead, then calls
\* its callback and returns the callback's result; a dead one returns None.
finalize_call(st, h) ==
    The({ IF s.obj[h].fin = "alive"
          THEN CallDeleter([s EXCEPT !.obj[h].fin = "dead"], h)
          ELSE [s EXCEPT !.ret = "None", !.raised = "None"]
          : s \in {st} })

\* CleanupWithFinalize.cleanup.  _finalizer is None until _init has run,
\* and None has no __call__.
CleanupWithFinalize_cleanup(st, h) ==
    The({ IF s.obj[h].fin = "None"
          THEN [s EXCEPT !.ret = "NoReturn", !.raised = "AttributeError"]
          ELSE finalize_call(s, h)
          : s \in {st} })

\* A cleanup() that also takes the handle out of the registry.
cleanup_Unenrolls(st, h) ==
    The({ [r EXCEPT !.registry = SelectSeq(@, LAMBDA x : x # h)]
          : r \in { IF s.obj[h].cls = "del" THEN CleanupWithDel_cleanup(s, h)
                    ELSE CleanupWithFinalize_cleanup(s, h)
                    : s \in {[st EXCEPT !.calls = Append(@, h)]} } })

\* ret.cleanup(): dispatch on the object's class.
cleanup(st, h) ==
    The({ IF s.obj[h].cls = "del" THEN CleanupWithDel_cleanup(s, h)
          ELSE CleanupWithFinalize_cleanup(s, h)
          : s \in {[st EXCEPT !.calls = Append(@, h)]} })

\* __del__ that returns without a call of cleanup().
CleanupWithDel_del_NoCleanup(st, h) ==
    The({ [s EXCEPT !.ret = "None", !.raised = "None"] : s \in {st} })

\* __del__ without the safeguard for partially initialised instances.
CleanupWithDel_del_NoGuard(st, h) ==
    The({ IF r.raised # "None" THEN r ELSE [r EXCEPT !.ret = "None"]
          : r \in {CleanupWithDel_cleanup(st, h)} })

\* __del__ that raises the error cleanup() returned.
CleanupWithDel_del_Raises(st, h) ==
    The({ IF s.obj[h].init # "True"
          THEN [s EXCEPT !.ret = "None", !.raised = "None"]
          ELSE The({ IF r.raised # "None" THEN r
                     ELSE IF r.ret # "None"
                          THEN [r EXCEPT !.raised = r.ret, !.ret = "NoReturn"]
                          ELSE r
                     : r \in {CleanupWithDel_cleanup(s, h)} })
          : s \in {st} })

\* CleanupWithDel.__del__
CleanupWithDel_del(st, h) ==
    The({ IF s.obj[h].init # "True"
          THEN [s EXCEPT !.ret = "None", !.raised = "None"]
          ELSE The({ IF r.raised # "None" THEN r ELSE [r EXCEPT !.ret = "None"]
                     : r \in {CleanupWithDel_cleanup(s, h)} })
          : s \in {st} })

\* The last reference to object h is gone: the interpreter runs __del__
\* (CleanupWithDel) or the weakref callback of a live finalizer
\* (CleanupWithFinalize).  What either returns or raises is discarded.
Dealloc(st, h) ==
    The({ The({ [r EXCEPT !.ret = s.ret, !.raised = s.raised,
                           !.unraisable = IF r.raised = "None" THEN @
                                          ELSE @ \cup {r.raised}]
                : r \in { IF s.obj[h].cls = "del" THEN CleanupWithDel_del(s, h)
                          ELSE IF s.obj[h].fin = "alive" THEN finalize_call(s, h)
                          ELSE s } })
          : s \in {st} })

\* Dealloc for the objects of hs, highest first.
RECURSIVE DeallocAll(_, _)
DeallocAll(st, hs) ==
    IF hs = {} THEN st
    ELSE The({ DeallocAll(Dealloc(st, h), hs \ {h})
               : h \in { x \in hs : \A y \in hs : y <= x } })

\* The loop of _on_finalize with a body that calls the deleter itself.
RECURSIVE DrainFrom_CallsDeleter(_, _, _)
DrainFrom_CallsDeleter(st, snapshot, i) ==
    IF i > Len(snapshot) THEN [st EXCEPT !.ret = "None", !.raised = "None"]
    ELSE The({ IF r.raised # "None" THEN r
               ELSE DrainFrom_CallsDeleter(r, snapshot, i + 1)
               : r \in {CallDeleter([st EXCEPT !.calls = Append(@, snapshot[i])],
                                    snapshot[i])} })

\* The loop of _on_finalize taking the entries last to first.
RECURSIVE DrainFrom_Reversed(_, _, _)
DrainFrom_Reversed(st, snapshot, i) ==
    IF i > Len(snapshot) THEN [st EXCEPT !.ret = "None", !.raised = "None"]
    ELSE The({ IF r.raised # "None" THEN r
               ELSE DrainFrom_Reversed(r, snapshot, i + 1)
               : r \in {cleanup(st, snapshot[Len(snapshot) + 1 - i])} })

\* The loop of _on_finalize ending at the first cleanup() that returns an
\* error.
RECURSIVE DrainFrom_StopsOnError(_, _, _)
DrainFrom_StopsOnError(st, snapshot, i) ==
    IF i > Len(snapshot) THEN [st EXCEPT !.ret = "None", !.raised = "None"]
    ELSE The({ IF r.raised # "None" THEN r
               ELSE IF r.ret # "None" THEN [r EXCEPT !.ret = "None"]
               ELSE DrainFrom_StopsOnError(r, snapshot, i + 1)
               : r \in {cleanup(st, snapshot[i])} })

\* The loop of _on_finalize over list(delay_till_exit), from entry i on.
\* An exception leaving a cleanup() ends the loop.
RECURSIVE DrainFrom(_, _, _)
DrainFrom(st, snapshot, i) ==
    IF i > Len(snapshot) THEN [st EXCEPT !.ret = "None", !.raised = "None"]
    ELSE The({ IF r.raised # "None" THEN r ELSE DrainFrom(r, snapshot, i + 1)
               : r \in {cleanup(st, snapshot[i])} })

Range(s) == { s[i] : i \in 1..Len(s) }

\* _on_finalize that clears the registry without the loop.
_on_finalize_ClearsOnly(st) ==
    The({ DeallocAll([s EXCEPT !.registry = << >>, !.ret = "None", !.raised = "None"],
                     { h \in Range(s.registry) : ~s.obj[h].held })
          : s \in {st} })

\* _on_finalize: clean every entry of a snapshot of the registry, then
\* clear the registry; the entries nobody else refers to are deallocated.
_on_finalize(st) ==
    The({ The({ IF r.raised # "None" THEN r
                ELSE DeallocAll([r EXCEPT !.registry = << >>],
                                { h \in Range(s.registry) : ~s.obj[h].held })
                : r \in {DrainFrom(s, s.registry, 1)} })
          : s \in {st} })

\* _at_exit
_at_exit(st) == _on_finalize(st)

(***************************************************************************)
(* Actions of a running program.                                           *)
(***************************************************************************)
Op(op, h, st) ==
    [op |-> op, h |-> h, arg |-> NoneVal, ret |-> st.ret, raised |-> st.raised,
     msg |-> "", val |-> NoneVal, rm |-> {}, calls |-> st.calls,
     unraisable |-> st.unraisable]

Commit(st) ==
    /\ obj' = st.obj
    /\ registry' = st.registry
    /\ fs' = st.fs

\* Objects are numbered in the order of their allocation.
NextToAllocate(h) ==
    /\ obj[h].cls = "none"
    /\ \A g \in Handles : g < h => obj[g].cls # "none"

\* Every handle is given a file of its own: no two handles name the same
\* file, and the temp file mkstemp made for one handle goes to that handle.
FreshFile(h, p) ==
    /\ \A g \in Handles :
           obj[g].init = "True" => Resolve(obj[g].path.parts) # Resolve(p.parts)
    /\ \A g \in Handles : Resolve(p.parts) = TempFile(g) => g = h

\* __init__ with a CleanupWithFinalize._init that attaches no finalizer.
Constructed_NoFinalizer(c, p, d) ==
    [NoObject EXCEPT !.cls = c, !.init = "True", !.path = p,
                     !.cleaned = IF c = "del" THEN "False" ELSE "None",
                     !.held = TRUE, !.delay = d]

\* The object as Cleanup.__init__ leaves it when check_path returned p;
\* _init of the class has set _cleaned_up or attached the finalizer.
Constructed(c, p, d) ==
    [NoObject EXCEPT !.cls = c, !.init = "True", !.path = p,
                     !.cleaned = IF c = "del" THEN "False" ELSE "None",
                     !.fin = IF c = "fin" THEN "alive" ELSE "None",
                     !.held = TRUE, !.delay = d]

\* __init__ that ignores delay_till_exit.
Enroll_Never(reg, h, d) == reg

\* __init__ that appends self twice.
Enroll_Twice(reg, h, d) == IF d THEN Append(Append(reg, h), h) ELSE reg

\* if delay_till_exit: Cleanup._delay_till_exit.append(self)
Enroll(reg, h, d) == IF d THEN Append(reg, h) ELSE reg

\* The object as Cleanup.__init__ leaves it when check_path raised.
Partial(c) == [NoObject EXCEPT !.cls = c, !.init = "False"]

\* Cleanup.__init__ together with the statement that called it:
\* x = CleanupWithDel(v, d) or x = CleanupWithFinalize(v, d).  When
\* check_path raises, the half-built object (_initialized False, no _path)
\* is unreachable and is deallocated as the exception unwinds.
Cleanup_init(h, c, v, d) ==
    /\ phase = "running"
    /\ NextToAllocate(h)
    /\ \E r \in {check_path(v, fs)} :
           IF r.exc = "None"
           THEN /\ FreshFile(h, r.val)
                /\ obj' = [obj EXCEPT ![h] = Constructed(c, r.val, d)]
                /\ registry' = Enroll(registry, h, d)
                /\ fs' = fs
                /\ last' = Op("ctor", 0, [Now EXCEPT !.ret = "None"])
           ELSE \E st \in {Dealloc([Now EXCEPT !.obj[h] = Partial(c)], h)} :
                    /\ Commit(st)
                    /\ last' = Op("ctor", 0, [st EXCEPT !.ret = "NoReturn",
                                                        !.raised = r.exc])
    /\ UNCHANGED << phase, run >>

\* object.__new__(cls), optionally followed by obj._initialized = False:
\* an instance on which __init__ never ran (test_blank_instance,
\* test_del_safeguard).
NewBlank(h, c, marked) ==
    /\ phase = "running"
    /\ NextToAllocate(h)
    /\ obj' = [obj EXCEPT ![h] = [NoObject EXCEPT !.cls = c, !.held = TRUE,
                     !.init = IF marked THEN "False" ELSE "absent"]]
    /\ last' = Op("blank", 0, [Now EXCEPT !.ret = "None"])
    /\ UNCHANGED << registry, fs, phase, run >>

\* An explicit x.cleanup() on a constructed handle the caller holds.
Cleanup(h) ==
    /\ phase = "running"
    /\ obj[h].held
    /\ obj[h].init = "True"
    /\ \E st \in {cleanup([Now EXCEPT !.obj[h].called = TRUE], h)} :
           Commit(st) /\ last' = Op("cleanup", h, st)
    /\ UNCHANGED << phase, run >>

\* An explicit x.__del__() on an instance whose __init__ never ran
\* (test_blank_instance, test_del_safeguard).
CallDel(h) ==
    /\ phase = "running"
    /\ obj[h].held
    /\ obj[h].cls = "del"
    /\ obj[h].init # "True"
    /\ \E st \in {CleanupWithDel_del(Now, h)} :
           Commit(st) /\ last' = Op("__del__", h, st)
    /\ UNCHANGED << phase, run >>

InRegistry(h) == h \in Range(registry)

\* del x, or the scope holding x ends: the caller's reference goes away.
\* An object the registry does not hold is deallocated at once.
Drop(h) ==
    /\ phase = "running"
    /\ obj[h].held
    /\ \E st0 \in {[Now EXCEPT !.obj[h].held = FALSE]} :
       \E st \in {IF InRegistry(h) THEN st0 ELSE Dealloc(st0, h)} :
           Commit(st) /\ last' = Op("drop", 0, st)
    /\ UNCHANGED << phase, run >>

(***************************************************************************)
(* Interpreter shutdown.  The atexit callbacks run last-registered first:  *)
(* _at_exit, then weakref.finalize's exit function (registered when the    *)
(* module created its first finalizer, just before _at_exit was            *)
(* registered); after them the remaining objects are torn down.            *)
(***************************************************************************)
\* The main program ends (or calls sys.exit): the interpreter starts to
\* shut down.
Exit ==
    /\ phase = "running"
    /\ phase' = "atexit"
    /\ last' = Op("exit", 0, [Now EXCEPT !.ret = "None"])
    /\ UNCHANGED << obj, registry, fs, run >>

AtExit ==
    /\ phase = "atexit"
    /\ \E st \in {_at_exit(Now)} :
           Commit(st) /\ last' = Op("_at_exit", 0, st)
    /\ phase' = "exitfunc"
    /\ run' = [run EXCEPT !.drains = @ + 1]

\* An exception that leaves an exit callback is reported by the interpreter
\* and does not propagate.
Reported(st) ==
    [st EXCEPT !.unraisable = IF st.raised = "None" THEN @ ELSE @ \cup {st.raised},
               !.raised = "None"]

\* The live finalizers of hs fire, the most recently created first.
RECURSIVE FireAll(_, _)
FireAll(st, hs) ==
    IF hs = {} THEN st
    ELSE The({ FireAll(Reported(finalize_call(st, h)), hs \ {h})
               : h \in { x \in hs : \A y \in hs : y <= x } })

\* finalize._exitfunc: every live finalizer is called, newest first; the
\* module's own finalizer, created at import, comes last and runs
\* _on_finalize.  Exceptions of the callbacks are reported, not raised.
FinalizeExitfunc ==
    /\ phase = "exitfunc"
    /\ \E st1 \in {FireAll(Now, { h \in Handles : obj[h].fin = "alive" })} :
       \E st \in {_on_finalize([st1 EXCEPT !.ret = "-", !.raised = "None"])} :
           Commit(st) /\ last' = Op("_exitfunc", 0, Reported(st))
    /\ phase' = "teardown"
    /\ run' = [run EXCEPT !.drains = @ + 1]

\* Module teardown: the references the program still holds go away and the
\* objects are deallocated.
Teardown ==
    /\ phase = "teardown"
    /\ \E st0 \in {[Now EXCEPT !.obj = [h \in Handles |->
                                           [obj[h] EXCEPT !.held = FALSE]],
                                !.registry = << >>]} :
       \E st \in {DeallocAll(st0, { h \in Handles : obj[h].held } \cup Range(registry))} :
           Commit(st) /\ last' = Op("teardown", 0, st)
    /\ phase' = "done"
    /\ UNCHANGED run

Next ==
    \/ \E h \in Handles, c \in {"del", "fin"}, v \in CandidateValues, d \in BOOLEAN :
           Cleanup_init(h, c, v, d)
    \/ \E h \in Handles, c \in {"del", "fin"}, marked \in BOOLEAN : NewBlank(h, c, marked)
    \/ \E h \in Handles : Cleanup(h)
    \/ \E h \in Handles : CallDel(h)
    \/ \E h \in Handles : Drop(h)
    \/ Exit
    \/ AtExit
    \/ FinalizeExitfunc
    \/ Teardown

Spec == Init /\ [][Next]_vars

\* Once the interpreter shuts down it runs its exit callbacks and tears the
\* remaining objects down, one stage after the other.
FairSpec ==
    Spec /\ WF_vars(AtExit) /\ WF_vars(FinalizeExitfunc) /\ WF_vars(Teardown)

(***************************************************************************)
(* Direct calls of the two module-level functions, with any value.         *)
(***************************************************************************)
CallCheckPath(v) ==
    /\ \E r \in {check_path(v, fs)} :
           last' = [op |-> "check_path", h |-> 0, arg |-> v,
                    ret |-> IF r.exc = "None" THEN "Path" ELSE "NoReturn",
                    raised |-> r.exc, msg |-> r.msg, val |-> r.val, rm |-> {},
                    calls |-> << >>, unraisable |-> {}]
    /\ UNCHANGED << obj, registry, fs, phase, run >>

CallCleanup(v) ==
    /\ \E r \in {_cleanup(v, fs)} :
           /\ fs' = r.files
           /\ last' = [op |-> "_cleanup", h |-> 0, arg |-> v, ret |-> r.ret,
                       raised |-> r.raised, msg |-> "", val |-> NoneVal, rm |-> r.rm,
                       calls |-> << >>, unraisable |-> {}]
    /\ UNCHANGED << obj, registry, phase, run >>

NextFn ==
    \/ \E v \in CandidateValues : CallCheckPath(v)
    \/ \E v \in CandidateValues : CallCleanup(v)

SpecFn == Init /\ [][NextFn]_vars

(***************************************************************************)
(* Properties of check_path and _cleanup (specification SpecFn).           *)
(***************************************************************************)
ExceptionClasses ==
    { "TypeError", "ValueError", "IsADirectoryError", "PermissionError",
      "FileNotFoundError", "OSError" }

IsPathLike(v) == v.type = "str" \/ v.type = "Path"

IsEmptyValue(v) ==
    v.type = "NoneType" \/ (IsPathLike(v) /\ v.parts = << >>)

\* The file system entry a str or Path names.
Entry(v) == Resolve(Path(v).parts)

HasEntry(v) == ~HasNul(v.parts) /\ Entry(v) \in (Dirs \cup fs)

IsRegularFile(v) == ~HasNul(v.parts) /\ Entry(v) \in fs

\* C7: _cleanup never raises: for every input it returns None or an
\* exception instance.
C7_CleanupNeverRaises ==
    last.op = "_cleanup" =>
        /\ last.raised = "None"
        /\ last.ret \in ({"None"} \cup ExceptionClasses)

\* C8: _cleanup answers a non-Path argument with TypeError, the empty path
\* with ValueError and a path that is not under the temp directory with
\* ValueError, calling os.remove in none of these cases; so every path it
\* hands to os.remove names a file under the temp directory.
C8_CleanupRechecksPreconditions ==
    last.op = "_cleanup" =>
        /\ last.arg.type # "Path" => (last.ret = "TypeError" /\ last.rm = {})
        /\ (last.arg.type = "Path" /\ last.arg.parts = << >>)
               => (last.ret = "ValueError" /\ last.rm = {})
        /\ (last.arg.type = "Path" /\ last.arg.parts # << >>
                /\ ~UnderTempDir(last.arg.parts))
               => (last.ret = "ValueError" /\ last.rm = {})
        /\ \A p \in last.rm : UnderTempDir(p)

\* C9: check_path gives every candidate its designated outcome: "", None
\* and the empty Path raise ValueError; a value that is neither str nor
\* Path raises TypeError; a path without a file system entry raises
\* FileNotFoundError; an entry that is no regular file raises ValueError; a
\* regular file that is not under the temp directory raises ValueError; a
\* regular file under the temp directory is returned as a Path equal to
\* the input.
C9_CheckPathClassifies ==
    last.op = "check_path" =>
        LET v == last.arg
        IN  /\ IsEmptyValue(v) => last.raised = "ValueError"
            /\ (~IsPathLike(v) /\ v.type # "NoneType") => last.raised = "TypeError"
            /\ (IsPathLike(v) /\ v.parts # << >>) =>
                 /\ ~HasEntry(v) => last.raised = "FileNotFoundError"
                 /\ (HasEntry(v) /\ ~IsRegularFile(v)) => last.raised = "ValueError"
                 /\ (IsRegularFile(v) /\ ~UnderTempDir(v.parts))
                        => last.raised = "ValueError"
                 /\ (IsRegularFile(v) /\ UnderTempDir(v.parts))
                        => /\ last.raised = "None"
                           /\ last.val.type = "Path"
                           /\ Resolve(last.val.parts) = Resolve(v.parts)

\* C10: check_path raises the not-in-temp-directory ValueError for every
\* regular file whose resolved location is not below the temp directory,
\* however the path is spelled (with ".." components or without).
C10_RejectsResolvedOutside ==
    (/\ last.op = "check_path"
     /\ IsPathLike(last.arg)
     /\ last.arg.parts # << >>
     /\ IsRegularFile(last.arg)
     /\ ~UnderTempDir(last.arg.parts))
        => (last.raised = "ValueError" /\ last.msg = "Path is not in temp directory")

(***************************************************************************)
(* Properties of the handles, the registry and the shutdown sequence       *)
(* (specifications Spec and FairSpec).                                     *)
(***************************************************************************)
IsHandle(h) == obj[h].init = "True"

\* The file handle h was constructed on is still there.
FilePresent(h) == Resolve(obj[h].path.parts) \in fs

DrainHasRun == phase \in {"exitfunc", "teardown", "done"}

\* C1: the deleter _cleanup is invoked at most once for a handle, whatever
\* the sequence of cleanup() calls, destructions, drains and shutdown hooks.
C1_DeleterAtMostOnce == \A h \in Handles : obj[h].attempts <= 1

\* A handle that was cleaned explicitly, enrolled, drained and torn down.
C1_Witness ==
    \E h \in Handles :
        /\ IsHandle(h) /\ obj[h].delay /\ obj[h].called
        /\ obj[h].attempts = 1 /\ phase = "done"

\* C2: once the interpreter shuts down, the shutdown completes, and by then
\* every constructed handle has had its deletion attempted.
C2_AttemptedByShutdown ==
    \A h \in Handles :
        (IsHandle(h) /\ phase # "running") ~> (phase = "done" /\ obj[h].attempts >= 1)

\* A handle that was neither cleaned nor enrolled, deleted by the teardown
\* of the objects the program still held.
C2_Witness ==
    /\ phase = "done"
    /\ last.op = "teardown"
    /\ \E h \in Handles :
           /\ IsHandle(h) /\ obj[h].cls = "del" /\ ~obj[h].delay /\ ~obj[h].called
           /\ obj[h].attempts = 1
           /\ ~FilePresent(h)

\* C3: a cleanup() call on a handle that had a cleanup() call before returns
\* None and makes no deletion attempt; after any number of cleanup() calls
\* the handle has had exactly one deletion attempt.
C3_CleanupIdempotent ==
    [][\A h \in Handles :
          /\ (obj[h].called /\ last'.op = "cleanup" /\ last'.h = h)
                => /\ last'.ret = "None"
                   /\ last'.raised = "None"
                   /\ obj'[h].attempts = obj[h].attempts
                   /\ fs' = fs
          /\ obj'[h].called => obj'[h].attempts = 1]_vars

\* A second cleanup() has returned None on a handle whose only deletion
\* attempt had failed.
C3_Witness ==
    /\ last.op = "cleanup"
    /\ last.ret = "None"
    /\ \E h \in Handles :
           /\ last.h = h /\ obj[h].called
           /\ obj[h].res = "PermissionError" /\ obj[h].attempts = 1

\* The step in which the caller drops its reference to handle h while the
\* program runs.
DropsLastReference(h) ==
    /\ IsHandle(h) /\ ~obj[h].delay /\ ~obj[h].called
    /\ obj[h].held /\ ~obj'[h].held
    /\ phase' = "running"

\* C4 as claimed: for a handle constructed with delay_till_exit=False and
\* never cleaned explicitly, the step that drops its last reference makes
\* the deletion attempt, and the file is absent right after that step.
C4_DropDeletesFile ==
    [][\A h \in Handles :
          DropsLastReference(h)
              => /\ obj[h].attempts = 0
                 /\ obj'[h].attempts = 1
                 /\ Resolve(obj[h].path.parts) \notin fs']_vars

\* C4 as amended: the step that drops the last reference makes the one
\* deletion attempt; the file is absent right after it when the attempt
\* succeeded, and when the attempt failed the file system is unchanged.
C4_DropAttemptsDeletion ==
    [][\A h \in Handles :
          DropsLastReference(h)
              => /\ obj[h].attempts = 0
                 /\ obj'[h].attempts = 1
                 /\ obj'[h].res = "None" => Resolve(obj[h].path.parts) \notin fs'
                 /\ obj'[h].res # "None" => (obj'[h].res \in ExceptionClasses /\ fs' = fs)]_vars

\* A CleanupWithFinalize handle went out of scope and its file is gone
\* while the program runs.
C4_Witness ==
    /\ phase = "running"
    /\ last.op = "drop"
    /\ \E h \in Handles :
           /\ IsHandle(h) /\ obj[h].cls = "fin" /\ ~obj[h].delay /\ ~obj[h].called
           /\ ~obj[h].held /\ obj[h].attempts = 1 /\ obj[h].res = "None"
           /\ ~FilePresent(h)

\* C5 as claimed: for a handle constructed with delay_till_exit=True and
\* never cleaned explicitly there is no deletion attempt and the file is
\* present in every state before the shutdown drain, and the file is
\* absent once the drain has run.
C5_DeferredUntilDrain ==
    \A h \in Handles :
        (IsHandle(h) /\ obj[h].delay /\ ~obj[h].called)
            => IF DrainHasRun
               THEN ~FilePresent(h)
               ELSE obj[h].attempts = 0 /\ FilePresent(h)

\* C5 as amended: no deletion attempt and the file present in every state
\* before the shutdown drain; once the drain has run the handle has had
\* its one deletion attempt, and the file is absent if that attempt
\* succeeded.
C5_DeferredAttemptAtDrain ==
    \A h \in Handles :
        (IsHandle(h) /\ obj[h].delay /\ ~obj[h].called)
            => IF DrainHasRun
               THEN /\ obj[h].attempts = 1
                    /\ obj[h].res = "None" => ~FilePresent(h)
                    /\ obj[h].res # "None" => obj[h].res \in ExceptionClasses
               ELSE obj[h].attempts = 0 /\ FilePresent(h)

\* An enrolled handle whose scope ended long ago was deleted by the drain.
C5_Witness ==
    /\ phase = "exitfunc"
    /\ \E h \in Handles :
           /\ IsHandle(h) /\ obj[h].delay /\ ~obj[h].called /\ ~obj[h].held
           /\ obj[h].attempts = 1 /\ ~FilePresent(h)

\* C6: an object whose construction did not complete never has a deletion
\* attempt, a finalizer or a place in the registry, and __del__ on it
\* returns without raising and without changing anything.
C6_NoDeletionAfterFailedConstruction ==
    [][/\ \A h \in Handles :
             (obj'[h].cls # "none" /\ obj'[h].init # "True")
                 => /\ obj'[h].attempts = 0
                    /\ obj'[h].fin = "None"
                    /\ h \notin Range(registry')
       /\ last'.op = "__del__"
             => /\ last'.raised = "None"
                /\ last'.ret = "None"
                /\ << obj', registry', fs' >> = << obj, registry, fs >>
       /\ (last'.op = "ctor" /\ last'.raised # "None")
             => << registry', fs' >> = << registry, fs >>]_vars

\* One construction failed and its half-built object was destroyed; on a
\* blank instance __del__ was called.
C6_Witness ==
    /\ last.op = "__del__"
    /\ \E g, h \in Handles :
           /\ obj[g].init = "False" /\ ~obj[g].held /\ obj[g].cls = "fin"
           /\ obj[h].init = "absent" /\ obj[h].held /\ last.h = h

(***************************************************************************)
(* Properties of the registry drain (specification Spec).                  *)
(***************************************************************************)
\* The sequences without repetition of elements of S.
Arrangements(S) ==
    { q \in UNION { [1..n -> S] : n \in 0..Cardinality(S) } :
          \A i, j \in 1..Len(q) : q[i] = q[j] => i = j }

\* The enrolled handles that still exist.
EnrolledAlive == { h \in Handles : IsHandle(h) /\ obj[h].delay /\ obj[h].held }

\* The call leaves every handle's deletion attempts and the files alone.
NoDeletionAttempt(st) ==
    /\ st.raised = "None"
    /\ st.fs = fs
    /\ \A h \in Handles : st.obj[h].attempts = obj[h].attempts

\* C11: the drain that follows the first drain makes no deletion attempt:
\* the second run of _on_finalize at shutdown calls no cleanup() and
\* attempts nothing, and once the first drain has run, a drain over any
\* arrangement of the enrolled handles attempts nothing either.
C11_SecondDrainNoOp ==
    /\ [](phase = "exitfunc"
            => \A reg \in Arrangements(EnrolledAlive) :
                   \A st \in {_on_finalize([Now EXCEPT !.registry = reg])} :
                       NoDeletionAttempt(st) /\ st.calls = reg)
    /\ [][last'.op = "_exitfunc"
            => /\ registry = << >>
               /\ last'.calls = << >>
               /\ \A h \in Handles :
                      obj'[h].attempts # obj[h].attempts
                          => (obj[h].fin = "alive" /\ ~obj[h].delay)]_vars

\* Both drains have run; the first one deleted the file of an enrolled
\* handle that the program still holds.
C11_Witness ==
    /\ last.op = "_exitfunc"
    /\ run.drains = 2
    /\ \E h \in Handles :
           /\ IsHandle(h) /\ obj[h].delay /\ obj[h].held /\ ~obj[h].called
           /\ obj[h].attempts = 1 /\ obj[h].res = "None"

\* C12: during one shutdown the drain callback _on_finalize runs exactly
\* once, never twice and never not at all, and once it has run every
\* enrolled handle has had its deletion attempted, also the handles whose
\* owner dropped them long before.
C12_DrainFiresExactlyOnce ==
    /\ run.drains <= 1
    /\ phase = "done" => run.drains = 1
    /\ DrainHasRun
          => \A h \in Handles :
                 (IsHandle(h) /\ obj[h].delay) => obj[h].attempts = 1

\* C13: a drain calls cleanup() on the handles of the registry in the
\* order of their enrolment; when it is over the registry is empty and
\* each of those handles has had its deletion attempt, made by this drain
\* or by a cleanup() before it.
C13_DrainInInsertionOrder ==
    [][last'.op \in {"_at_exit", "_exitfunc"}
          => /\ last'.calls = registry
             /\ registry' = << >>
             /\ \A h \in Range(registry) :
                    /\ obj'[h].attempts = 1
                    /\ obj[h].attempts = 0 <=> ~obj[h].called]_vars

\* A drain over two handles, the first cleaned by the program before, the
\* second by the drain.
C13_Witness ==
    /\ last.op = "_at_exit"
    /\ Len(last.calls) = 2
    /\ last.calls[1] < last.calls[2]
    /\ obj[last.calls[1]].called /\ obj[last.calls[1]].attempts = 1
    /\ ~obj[last.calls[2]].called /\ obj[last.calls[2]].attempts = 1
    /\ registry = << >>

\* The deletion attempt made for handle h in this step reported an error.
FailsInThisStep(h) ==
    /\ obj[h].attempts = 0
    /\ obj'[h].attempts = 1
    /\ obj'[h].res \in ExceptionClasses

\* C14: a drain does not raise and is not cut short: when the cleanup()
\* of an entry reports a deletion error, the drain still calls cleanup()
\* on every later entry and clears the registry.
C14_DrainSurvivesErrors ==
    [][last'.op \in {"_at_exit", "_exitfunc"}
          => /\ last'.raised = "None"
             /\ last'.unraisable = {}
             /\ \A i \in 1..Len(registry) :
                    FailsInThisStep(registry[i])
                        => /\ Len(last'.calls) = Len(registry)
                           /\ \A j \in (i + 1)..Len(registry) :
                                  /\ last'.calls[j] = registry[j]
                                  /\ obj'[registry[j]].attempts = 1
                           /\ registry' = << >>]_vars

\* The drain could not delete the file of its first entry and deleted the
\* file of its second.
C14_Witness ==
    /\ last.op = "_at_exit"
    /\ last.raised = "None"
    /\ Len(last.calls) = 2
    /\ obj[last.calls[1]].res = "PermissionError" /\ ~obj[last.calls[1]].called
    /\ obj[last.calls[2]].res = "None" /\ ~obj[last.calls[2]].called
    /\ ~FilePresent(last.calls[2])
    /\ registry = << >>

(***************************************************************************)
(* Properties of the error handling of the handles (specification Spec).   *)
(***************************************************************************)
\* Handle h counts as cleaned: no cleanup() will call the deleter again.
CountsAsCleaned(o) ==
    IF o.cls = "del" THEN o.cleaned = "True" ELSE o.fin = "dead"

\* C15: the first cleanup() on a handle returns what the deleter returned,
\* None after a removal and the error value after a failure; a handle whose
\* deletion failed counts as cleaned, and no later cleanup(), destruction
\* or drain makes another deletion attempt for it.
C15_FailureReportedNotRetried ==
    [][\A h \in Handles :
          /\ (last'.op = "cleanup" /\ last'.h = h /\ ~obj[h].called)
                => /\ last'.raised = "None"
                   /\ last'.ret \in {"None"} \cup ExceptionClasses
                   /\ last'.ret = obj'[h].res
                   /\ obj[h].attempts = 0 /\ obj'[h].attempts = 1
                   /\ CountsAsCleaned(obj'[h])
                   /\ last'.ret = "None" => Resolve(obj[h].path.parts) \notin fs'
                   /\ last'.ret # "None" => fs' = fs
          /\ obj[h].res \in ExceptionClasses
                => /\ CountsAsCleaned(obj[h])
                   /\ obj'[h].attempts = 1
                   /\ obj'[h].res = obj[h].res
                   /\ Resolve(obj[h].path.parts) \in fs']_vars

\* A cleanup() returned PermissionError; the handle then went through the
\* drain and the teardown, and the file was not touched again.
C15_Witness ==
    /\ phase = "done"
    /\ \E h \in Handles :
           /\ IsHandle(h) /\ obj[h].cls = "del" /\ obj[h].delay /\ obj[h].called
           /\ obj[h].res = "PermissionError" /\ obj[h].attempts = 1
           /\ FilePresent(h)

\* The steps in which the interpreter destroys handles or fires their
\* finalizers by itself.
DestroysHandles == last'.op \in {"drop", "_at_exit", "_exitfunc", "teardown"}

\* C16: when the deletion attempted by __del__ or by a finalizer that
\* fires by itself fails, the error is discarded: nothing is raised or
\* reported as unraisable, and the step destroys the handle and every
\* other handle it was to destroy.
C16_DestructionDiscardsFailure ==
    [][\A h \in Handles :
          (DestroysHandles /\ FailsInThisStep(h) /\ h \notin Range(last'.calls))
              => /\ last'.raised = "None"
                 /\ last'.unraisable = {}
                 /\ obj'[h].res \in ExceptionClasses
                 /\ CountsAsCleaned(obj'[h])
                 /\ last'.op = "drop" => (~obj'[h].held /\ phase' = "running")
                 /\ last'.op = "_exitfunc" => (obj[h].fin = "alive" /\ phase' = "teardown")
                 /\ last'.op = "teardown"
                       => /\ phase' = "done"
                          /\ \A g \in Handles :
                                 IsHandle(g) => (~obj'[g].held /\ obj'[g].attempts = 1)]_vars

\* The scope of a CleanupWithDel handle ended, __del__ could not delete
\* the file, and the program went on.
C16_Witness ==
    /\ phase = "running"
    /\ last.op = "drop"
    /\ last.raised = "None"
    /\ \E h \in Handles :
           /\ IsHandle(h) /\ obj[h].cls = "del" /\ ~obj[h].held /\ ~obj[h].called
           /\ obj[h].attempts = 1 /\ obj[h].res = "PermissionError"
           /\ FilePresent(h)

(***************************************************************************)
(* The type test of check_path (specification SpecFn).                     *)
(***************************************************************************)
\* C17 as claimed: check_path raises TypeError for every value that is
\* neither a str nor a Path.
C17_TypeErrorForNonPathLike ==
    (last.op = "check_path" /\ ~IsPathLike(last.arg))
        => last.raised = "TypeError"

\* C17 as amended: check_path raises TypeError for every value that is
\* neither None nor a str nor a Path; None is taken for an empty path and
\* raises ValueError.
C17_TypeErrorExceptNone ==
    (last.op = "check_path" /\ ~IsPathLike(last.arg))
        => IF last.arg = NoneVal
           THEN last.raised = "ValueError" /\ last.msg = "path cannot be empty"
           ELSE last.raised = "TypeError" /\ last.msg = "path must be a string or Path"

\* check_path was called with an integer and raised TypeError.
C17_Witness ==
    /\ last.op = "check_path"
    /\ last.arg = IntVal
    /\ last.raised = "TypeError"
    /\ last.ret = "NoReturn"

(***************************************************************************)
(* Order of the shutdown (specification Spec).                             *)
(***************************************************************************)
IsEnrolled(h) == IsHandle(h) /\ obj[h].delay

\* C19: at shutdown the drain comes before the destructors of the handles
\* that are still alive: when shutdown starts and until _at_exit has run no
\* handle is destroyed; _at_exit calls cleanup() on every enrolled handle
\* and makes the deletion attempt of those not cleaned before; the
\* teardown finds every enrolled handle cleaned and attempts nothing for it.
C19_DrainBeforeDestructors ==
    /\ [](phase \in {"teardown", "done"} => run.drains >= 1)
    /\ [][/\ last'.op = "exit"
                => << obj', registry', fs' >> = << obj, registry, fs >>
          /\ last'.op = "_at_exit"
                => \A h \in Handles :
                       /\ IsEnrolled(h)
                             => /\ h \in Range(last'.calls)
                                /\ obj'[h].attempts = 1
                                /\ CountsAsCleaned(obj'[h])
                       /\ ~IsEnrolled(h) => obj'[h] = obj[h]
          /\ last'.op = "teardown"
                => \A h \in Handles :
                       IsEnrolled(h)
                           => /\ obj[h].attempts = 1
                              /\ CountsAsCleaned(obj[h])
                              /\ obj'[h].attempts = 1]_vars

\* Both drains are over and the teardown is still to come: an enrolled
\* CleanupWithDel handle the program holds was cleaned by the drain, while
\* a handle that is not enrolled still waits for its destructor.
C19_Witness ==
    /\ phase = "teardown"
    /\ \E g, h \in Handles :
           /\ IsEnrolled(h) /\ obj[h].cls = "del" /\ obj[h].held /\ ~obj[h].called
           /\ obj[h].attempts = 1 /\ ~FilePresent(h)
           /\ IsHandle(g) /\ ~obj[g].delay /\ obj[g].cls = "del" /\ obj[g].held
           /\ obj[g].attempts = 0 /\ FilePresent(g)

(***************************************************************************)
(* __init__ and _on_finalize statement by statement.  A thread builds and  *)
(* uses handles while the exit callbacks drain the registry: the           *)
(* interpreter may switch threads between any two statements.              *)
(***************************************************************************)
\* Lines 86-87: _initialized = False; _path = check_path(path).  When
\* check_path raises, the object is deallocated as the exception unwinds.
InitValidate(h, c, v, d) ==
    /\ phase = "running"
    /\ run.ctor = 0
    /\ NextToAllocate(h)
    /\ \E r \in {check_path(v, fs)} :
           IF r.exc = "None"
           THEN /\ FreshFile(h, r.val)
                /\ obj' = [obj EXCEPT ![h] = [Partial(c) EXCEPT !.path = r.val,
                                                 !.held = TRUE, !.delay = d]]
                /\ run' = [run EXCEPT !.ctor = h, !.line = 88]
                /\ UNCHANGED << registry, fs >>
                /\ last' = Op("ctor:87", 0, [Now EXCEPT !.ret = "None"])
           ELSE \E st \in {Dealloc([Now EXCEPT !.obj[h] = Partial(c)], h)} :
                    /\ Commit(st)
                    /\ UNCHANGED run
                    /\ last' = Op("ctor", 0, [st EXCEPT !.ret = "NoReturn",
                                                        !.raised = r.exc])
    /\ UNCHANGED phase

\* Lines 88-89: if delay_till_exit: Cleanup._delay_till_exit.append(self)
InitEnroll(h) ==
    /\ run.ctor = h
    /\ run.line = 88
    /\ registry' = Enroll(registry, h, obj[h].delay)
    /\ run' = [run EXCEPT !.line = 90,
                          !.late = IF obj[h].delay /\ run.drainer # "idle"
                                   THEN @ \cup {h} ELSE @]
    /\ last' = Op("ctor:89", 0, [Now EXCEPT !.ret = "None"])
    /\ UNCHANGED << obj, fs, phase >>

\* Line 90: self._init() sets _cleaned_up or attaches the finalizer.
InitVariant(h) ==
    /\ run.ctor = h
    /\ run.line = 90
    /\ \E o \in {Constructed(obj[h].cls, obj[h].path, obj[h].delay)} :
           obj' = [obj EXCEPT ![h].cleaned = o.cleaned, ![h].fin = o.fin]
    /\ run' = [run EXCEPT !.line = 91]
    /\ last' = Op("ctor:90", 0, [Now EXCEPT !.ret = "None"])
    /\ UNCHANGED << registry, fs, phase >>

\* Line 91: self._initialized = True; __init__ returns.
InitDone(h) ==
    /\ run.ctor = h
    /\ run.line = 91
    /\ obj' = [obj EXCEPT ![h].init = "True"]
    /\ run' = [run EXCEPT !.ctor = 0, !.line = 0]
    /\ last' = Op("ctor", 0, [Now EXCEPT !.ret = "None"])
    /\ UNCHANGED << registry, fs, phase >>

\* The owner drops a handle whose __init__ has returned.
DropBuilt(h) == run.ctor # h /\ Drop(h)

\* _on_finalize is entered, by _at_exit or after it by the module's
\* finalizer, which finalize's exit function calls once the finalizers of
\* the live handles have fired.  Lines 185-186: the snapshot
\* list(delay_till_exit) is taken.
DrainSnapshot ==
    /\ run.drainer = "idle"
    /\ run.drains < 2
    /\ \E st \in {IF run.drains = 0 THEN Now
                  ELSE FireAll(Now, { h \in Handles : obj[h].fin = "alive" })} :
           /\ Commit(st)
           /\ last' = Op("drain:186", 0, Reported(st))
    /\ run' = [run EXCEPT !.drains = @ + 1, !.drainer = "loop",
                          !.snapshot = registry, !.i = 1]
    /\ UNCHANGED phase

\* Line 187: ret.cleanup() for the next entry of the snapshot.  An
\* exception leaves _on_finalize at once.
DrainCleanup ==
    /\ run.drainer = "loop"
    /\ run.i <= Len(run.snapshot)
    /\ \E st \in {cleanup(Now, run.snapshot[run.i])} :
           /\ Commit(st)
           /\ last' = Op("drain:187", run.snapshot[run.i], st)
           /\ run' = IF st.raised = "None" THEN [run EXCEPT !.i = @ + 1]
                     ELSE [run EXCEPT !.drainer = "idle", !.snapshot = << >>, !.i = 0]
    /\ UNCHANGED phase

\* Line 188: delay_till_exit.clear(); the entries nobody else refers to
\* are deallocated.
DrainClear ==
    /\ run.drainer = "loop"
    /\ run.i > Len(run.snapshot)
    /\ \E st \in {DeallocAll([Now EXCEPT !.registry = << >>],
                             { h \in Range(registry) : ~obj[h].held })} :
           /\ Commit(st)
           /\ last' = Op("drain:188", 0, [st EXCEPT !.ret = "None"])
    /\ run' = [run EXCEPT !.drainer = "idle", !.snapshot = << >>, !.i = 0]
    /\ UNCHANGED phase

NextSteps ==
    \/ \E h \in Handles, c \in {"del", "fin"}, v \in CandidateValues, d \in BOOLEAN :
           InitValidate(h, c, v, d)
    \/ \E h \in Handles : InitEnroll(h)
    \/ \E h \in Handles : InitVariant(h)
    \/ \E h \in Handles : InitDone(h)
    \/ \E h \in Handles : Cleanup(h)
    \/ \E h \in Handles : DropBuilt(h)
    \/ DrainSnapshot
    \/ DrainCleanup
    \/ DrainClear

SpecSteps == Init /\ [][NextSteps]_vars

(***************************************************************************)
(* Properties of the enrolment (specification SpecSteps).                  *)
(***************************************************************************)
\* __init__ has run to its end for object h and _init of its class has run.
FullyConstructed(h) ==
    /\ obj[h].init = "True"
    /\ obj[h].cls = "del" => obj[h].cleaned # "None"
    /\ obj[h].cls = "fin" => obj[h].fin # "None"

\* C18: a handle is put into the registry only when its construction is
\* complete: every handle in the registry has _initialized True and has had
\* _init of its class run, and a construction that fails leaves the
\* registry as it was.
C18_EnrolledOnlyWhenConstructed ==
    /\ [](\A h \in Range(registry) : FullyConstructed(h))
    /\ [][(last'.op = "ctor" /\ last'.raised # "None")
              => registry' = registry]_vars

\* C20: a handle enrolled while a drain was under way is not lost: once
\* that drain is over the handle has had its deletion attempted or is
\* still in the registry, where a later drain finds it.
C20_EnrolledDuringDrainNotLost ==
    \A h \in run.late :
        run.drainer = "idle"
            => (obj[h].attempts >= 1 \/ h \in Range(registry))

(***************************************************************************)
(* cleanup() statement by statement, called by several threads on handles  *)
(* they share, while handles go out of scope and the interpreter shuts     *)
(* down.  The interpreter may switch threads between any two statements;   *)
(* dict.pop, which weakref.finalize uses to consume a finalizer, is one    *)
(* indivisible operation.                                                  *)
(***************************************************************************)
\* A check of _cleaned_up that always lets the call through.
PassesCheck_Always(o) == TRUE

\* Line 134: if not self._cleaned_up
PassesCheck(o) == o.cleaned # "True"

\* A look at the finalizer that leaves it in the registry.
finalizer_pop_Peek(o) == o

\* finalize.__call__: info = self._registry.pop(self, None) takes the
\* finalizer out of the registry of live finalizers.
finalizer_pop(o) == [o EXCEPT !.fin = "dead"]

\* Thread t is inside cleanup() of handle h.
Inside(t, h) == run.pcs[t].h = h /\ run.pcs[t].at # "idle"

\* Thread t calls h.cleanup().  CleanupWithDel: line 134 reads _cleaned_up
\* and either goes on to line 137 or returns None (line 140).
\* CleanupWithFinalize: line 178 enters finalize.__call__, which pops the
\* finalizer and goes on to call _cleanup, or returns None when the
\* finalizer was consumed before.
CleanupEnter(t, h) ==
    /\ phase # "done"
    /\ run.pcs[t] = Idle
    /\ obj[h].held
    /\ obj[h].init = "True"
    /\ \E go \in {IF obj[h].cls = "del" THEN PassesCheck(obj[h])
                  ELSE obj[h].fin = "alive"} :
           /\ obj' = [obj EXCEPT ![h] = IF go /\ obj[h].cls = "fin"
                                        THEN finalizer_pop([@ EXCEPT !.called = TRUE])
                                        ELSE [@ EXCEPT !.called = TRUE]]
           /\ run' = IF go THEN [run EXCEPT !.pcs[t] = [h |-> h, at |-> "delete"]]
                     ELSE run
           /\ last' = Op(IF obj[h].cls = "del" THEN "cleanup:134" ELSE "finalize:pop",
                         h, [Now EXCEPT !.ret = IF go THEN "-" ELSE "None"])
    /\ UNCHANGED << registry, fs, phase >>

\* Line 137, exc = _cleanup(self.path), or the call of the callback in
\* finalize.__call__, whose result CleanupWithFinalize.cleanup returns.
CleanupDelete(t) ==
    /\ run.pcs[t].at = "delete"
    /\ \E h \in {run.pcs[t].h} :
       \E st \in {CallDeleter(Now, h)} :
           /\ Commit(st)
           /\ last' = Op(IF obj[h].cls = "del" THEN "cleanup:137" ELSE "finalize:func",
                         h, st)
           /\ run' = IF obj[h].cls = "del" /\ st.raised = "None"
                     THEN [run EXCEPT !.pcs[t].at = "mark"]
                     ELSE [run EXCEPT !.pcs[t] = Idle]
    /\ UNCHANGED phase

\* Lines 138-139: self._cleaned_up = True; return exc
CleanupMark(t) ==
    /\ run.pcs[t].at = "mark"
    /\ \E h \in {run.pcs[t].h} :
           /\ obj' = [obj EXCEPT ![h].cleaned = "True"]
           /\ last' = Op("cleanup:138", h, [Now EXCEPT !.ret = obj[h].res])
    /\ run' = [run EXCEPT !.pcs[t] = Idle]
    /\ UNCHANGED << registry, fs, phase >>

\* The owner drops a handle no thread is inside of.
DropUnused(h) == (\A t \in Threads : ~Inside(t, h)) /\ Drop(h)

NextThreads ==
    \/ \E h \in Handles, c \in {"del", "fin"}, v \in CandidateValues, d \in BOOLEAN :
           Cleanup_init(h, c, v, d)
    \/ \E t \in Threads, h \in Handles : CleanupEnter(t, h)
    \/ \E t \in Threads : CleanupDelete(t)
    \/ \E t \in Threads : CleanupMark(t)
    \/ \E h \in Handles : DropUnused(h)
    \/ Exit
    \/ AtExit
    \/ FinalizeExitfunc

SpecThreads == Init /\ [][NextThreads]_vars

(***************************************************************************)
(* Properties of cleanup() under interleaving (specification SpecThreads). *)
(***************************************************************************)
NobodyInside(h) == \A t \in Threads : ~Inside(t, h)

\* Thread t goes into the body of cleanup() of handle h in this step.
GoesInside(t, h) ==
    /\ run.pcs[t] = Idle
    /\ run'.pcs[t] = [h |-> h, at |-> "delete"]

\* C21: the finalizer of a CleanupWithFinalize handle fires at most once
\* whatever the interleaving of cleanup() calls, scope exit, drain and
\* exit-time finalization: the trigger that comes first consumes the
\* finalizer before the deleter runs, so at most one thread is ever on its
\* way to the deleter, and a cleanup() on a consumed finalizer returns
\* None and attempts nothing.
C21_FinalizerFiresAtMostOnce ==
    /\ [](\A h \in Handles :
              obj[h].cls = "fin"
                  => /\ obj[h].attempts <= 1
                     /\ obj[h].attempts = 1 => obj[h].fin = "dead"
                     /\ \A t, u \in Threads :
                            Inside(t, h)
                                => /\ obj[h].fin = "dead"
                                   /\ obj[h].attempts = 0
                                   /\ Inside(u, h) => u = t)
    /\ [][\A h \in Handles :
              (obj[h].cls = "fin" /\ obj[h].fin = "dead"
                 /\ last'.op = "finalize:pop" /\ last'.h = h)
                  => /\ last'.ret = "None"
                     /\ last'.raised = "None"
                     /\ obj'[h].attempts = obj[h].attempts
                     /\ fs' = fs
                     /\ run' = run]_vars

\* A thread has consumed the finalizer of a handle and has not called the
\* deleter yet; meanwhile the exit function fired the finalizers and left
\* that handle alone, and it fired the finalizer of another handle that the
\* program still holds, on which cleanup() can now be called.
C21_Witness ==
    /\ phase = "teardown"
    /\ last.op = "_exitfunc"
    /\ \E g, h \in Handles :
           /\ obj[h].cls = "fin" /\ obj[h].fin = "dead" /\ obj[h].attempts = 0
           /\ \E t \in Threads : Inside(t, h)
           /\ FilePresent(h)
           /\ obj[g].cls = "fin" /\ IsHandle(g) /\ obj[g].held /\ ~obj[g].called
           /\ obj[g].fin = "dead" /\ obj[g].attempts = 1

\* C22: for CleanupWithDel, one deletion attempt at most is guaranteed
\* only as long as cleanup() calls do not interleave.  A call whose check
\* of _cleaned_up comes when no other call is between its check and its
\* assignment goes on to the deleter only if no attempt was made before, a
\* call that reads _cleaned_up True returns None, and when all calls have
\* returned the flag of an attempted handle is set; a further attempt
\* happens only while a call is between the check and the assignment.
C22_TwoAttemptsNeedInterleaving ==
    /\ [](\A h \in Handles :
              (obj[h].cls = "del" /\ IsHandle(h) /\ NobodyInside(h) /\ obj[h].attempts >= 1)
                  => obj[h].cleaned = "True")
    /\ [][\A h \in Handles :
              (obj[h].cls = "del" /\ IsHandle(h))
                  => /\ \A t \in Threads :
                            (GoesInside(t, h) /\ NobodyInside(h))
                                => obj[h].attempts = 0
                     /\ (obj[h].attempts >= 1 /\ obj'[h].attempts > obj[h].attempts)
                            => ~NobodyInside(h)
                     /\ (obj[h].cleaned = "True" /\ last'.op = "cleanup:134" /\ last'.h = h)
                            => /\ last'.ret = "None"
                               /\ obj'[h].attempts = obj[h].attempts
                               /\ run' = run]_vars

\* Two cleanup() calls on one CleanupWithDel handle have both called the
\* deleter and have both returned.
C22_Witness ==
    \E h \in Handles :
        /\ IsHandle(h) /\ obj[h].cls = "del"
        /\ obj[h].attempts = 2
        /\ obj[h].cleaned = "True"
        /\ NobodyInside(h)
        /\ phase = "running"

(***************************************************************************)
(* The contents of the registry and the frame of cleanup()                 *)
(* (specification Spec).                                                   *)
(***************************************************************************)
\* C23: no handle is in the registry twice, and a handle constructed with
\* delay_till_exit=False is never in it.
C23_RegistryHasNoDuplicates ==
    /\ \A i, j \in 1..Len(registry) : registry[i] = registry[j] => i = j
    /\ \A h \in Range(registry) : obj[h].delay
    /\ \A h \in Handles : (obj[h].cls # "none" /\ ~obj[h].delay) => ~InRegistry(h)

\* One handle is enrolled, another one was constructed with
\* delay_till_exit=False and is not.
C23_Witness ==
    /\ Len(registry) = 1
    /\ \E g, h \in Handles :
           /\ IsHandle(h) /\ obj[h].delay /\ registry = << h >>
           /\ IsHandle(g) /\ ~obj[g].delay /\ obj[g].held

\* What of an object is not its cleaned state: everything but _cleaned_up,
\* the finalizer's state and the record of the cleanup() calls and of the
\* deletion attempts.
Frame(o) ==
    [cls |-> o.cls, init |-> o.init, path |-> o.path, held |-> o.held,
     delay |-> o.delay]

\* C24: cleanup() changes the cleaned state of its handle and the file
\* system and nothing else: the path of the handle, the registry and the
\* other handles are as before and no file but the handle's own is
\* removed; so an enrolled handle that was cleaned explicitly is in the
\* registry until the drain clears it.  The path of a handle never changes.
C24_CleanupFrame ==
    /\ [](\A h \in Handles :
              (IsEnrolled(h) /\ obj[h].called /\ phase \in {"running", "atexit"})
                  => InRegistry(h))
    /\ [][/\ \A h \in Handles : IsHandle(h) => obj'[h].path = obj[h].path
          /\ last'.op = "cleanup"
                => \E h \in {last'.h} :
                       /\ registry' = registry
                       /\ phase' = phase
                       /\ Frame(obj'[h]) = Frame(obj[h])
                       /\ \A g \in Handles \ {h} : obj'[g] = obj[g]
                       /\ fs' \subseteq fs
                       /\ fs \ fs' \subseteq {Resolve(obj[h].path.parts)}
                       /\ CountsAsCleaned(obj'[h])]_vars

\* cleanup() has deleted the file of an enrolled handle, and the handle
\* is still in the registry.
C24_Witness ==
    /\ phase = "running"
    /\ last.op = "cleanup"
    /\ \E h \in Handles :
           /\ last.h = h /\ IsEnrolled(h) /\ InRegistry(h)
           /\ obj[h].attempts = 1 /\ obj[h].res = "None" /\ ~FilePresent(h)
           /\ obj[h].path.type = "Path"

====
